---- MODULE Spec2Model ----
(***************************************************************************)
(* ClaudeGram: the URL summarization pipeline (content extraction, quality *)
(* scoring, decision routing, escalation to the Playwright Lambda, summary *)
(* cache) and the tool-use loop of ClaudeAgentService.process_message.     *)
(*                                                                         *)
(* Three specifications share the module:                                  *)
(*   SpecQuality  assess_quality / extract_content_from_html on bounded    *)
(*                texts, source lists, metadata and pages;                 *)
(*   Spec         _execute_summarize_url, one request after another,       *)
(*                against the S3-backed url_summaries table;               *)
(*   SpecAgent    the tool-use loop of process_message.                    *)
(*                                                                         *)
(* Python strings that the code only formats and passes on are TLC strings *)
(* (ASCII renderings of the Chinese literals).  A page text is a sequence  *)
(* of lines; a line is [w, wl, neg]: w plain words of wl characters each   *)
(* followed by neg copies of the marker "Loading...", single-spaced.       *)
(***************************************************************************)
EXTENDS Integers, Sequences, FiniteSets, TLC

\* ------------------------------------------------------------------------
\* Bounds of the input families
\* ------------------------------------------------------------------------
MaxLong == 10    \* lines of 50 five-letter words (299 characters)
MaxPara == 1     \* lines of one 30-character word
MaxShort == 1    \* lines of five five-letter words (29 characters)
MaxNeg == 4      \* copies of "Loading..." on the marker line

\* ------------------------------------------------------------------------
\* Text helpers (str.split, len, slicing as the scorer uses them)
\* ------------------------------------------------------------------------
NegLen == 10            \* len("Loading...")
NegMinMatch == 9        \* shortest match of loading\.{2,}
NegWindow == 3000       \* text[:3000]
ParagraphMinLen == 30   \* len(p.strip()) >= 30

RECURSIVE SumSeq(_)
SumSeq(s) == IF s = << >> THEN 0 ELSE Head(s) + SumSeq(Tail(s))

Repeat(x, n) == [i \in 1..n |-> x]

LineTokens(l) == l.w + l.neg

\* len(line): tokens joined by single spaces
LineLen(l) ==
    IF LineTokens(l) = 0 THEN 0
    ELSE l.w * l.wl + l.neg * NegLen + (LineTokens(l) - 1)

\* len(text): lines joined by "\n"
TextLen(t) ==
    IF t = << >> THEN 0
    ELSE SumSeq([i \in 1..Len(t) |-> LineLen(t[i])]) + (Len(t) - 1)

\* len(text.split())
WordCount(t) == SumSeq([i \in 1..Len(t) |-> LineTokens(t[i])])

\* [p for p in text.split("\n") if len(p.strip()) >= 30]
Paragraphs(t) == Cardinality({i \in 1..Len(t) : LineLen(t[i]) >= ParagraphMinLen})

\* offset of the first character of line i
LineStart(t, i) == SumSeq([j \in 1..(i - 1) |-> LineLen(t[j]) + 1])

\* offset of the k-th marker (k from 0) of line i
NegOffset(t, i, k) == LineStart(t, i) + t[i].w * (t[i].wl + 1) + k * (NegLen + 1)

\* len(_NEGATIVE_PATTERNS.findall(text[:3000])): a marker cut by the slice
\* still matches when at least "loading.." is left of the cut
NegativeMatches(t) ==
    SumSeq([i \in 1..Len(t) |->
              Cardinality({ k \in 0..(t[i].neg - 1) :
                              NegOffset(t, i, k) + NegMinMatch <= NegWindow })])

Min(a, b) == IF a < b THEN a ELSE b
Max(a, b) == IF a > b THEN a ELSE b

RECURSIVE JoinStr(_, _)
JoinStr(s, sep) ==
    IF s = << >> THEN ""
    ELSE IF Len(s) = 1 THEN s[1]
    ELSE s[1] \o sep \o JoinStr(Tail(s), sep)

InSeq(x, s) == \E i \in 1..Len(s) : s[i] = x

\* ------------------------------------------------------------------------
\* Layer 3: content quality scoring
\* ------------------------------------------------------------------------
high_confidence_sources == {"next_data", "nuxt_data", "json_ld", "semantic:article"}
medium_confidence_sources ==
    {"semantic:main", "semantic:role-main", "semantic:id-match", "semantic:class-match"}

WordScoreStrict(wc) ==
    IF wc > 500 THEN 40
    ELSE IF wc > 200 THEN 30
    ELSE IF wc > 100 THEN 20
    ELSE IF wc > 50 THEN 10
    ELSE 0

WordScore(wc) ==
    IF wc >= 500 THEN 40
    ELSE IF wc >= 200 THEN 30
    ELSE IF wc >= 100 THEN 20
    ELSE IF wc >= 50 THEN 10
    ELSE 0

ParagraphScoreGenerous(n) ==
    IF n >= 5 THEN 20
    ELSE IF n >= 1 THEN 15
    ELSE 0

ParagraphScore(n) ==
    IF n >= 5 THEN 20
    ELSE IF n >= 3 THEN 15
    ELSE IF n >= 1 THEN 5
    ELSE 0

SourceScore(sources) ==
    IF \E i \in 1..Len(sources) : sources[i] \in high_confidence_sources THEN 25
    ELSE IF \E i \in 1..Len(sources) : sources[i] \in medium_confidence_sources THEN 15
    ELSE IF InSeq("fallback:body", sources) THEN 5
    ELSE 0

SourceReason(sources) ==
    IF \E i \in 1..Len(sources) : sources[i] \in high_confidence_sources
        THEN "high_confidence_source (+25)"
    ELSE IF \E i \in 1..Len(sources) : sources[i] \in medium_confidence_sources
        THEN "medium_confidence_source (+15)"
    ELSE IF InSeq("fallback:body", sources) THEN "fallback_source (+5)"
    ELSE "no_source (+0)"

MetaScore(m) ==
      (IF m.title /= "" \/ m.og_title /= "" THEN 5 ELSE 0)
    + (IF m.description /= "" \/ m.og_description /= "" THEN 5 ELSE 0)
    + (IF m.author /= "" \/ m.published_time /= "" THEN 5 ELSE 0)

NegativePenaltyUncapped(t) == NegativeMatches(t) * 10

\* penalty = min(len(negative_matches) * 10, 30)
NegativePenalty(t) == Min(NegativeMatches(t) * 10, 30)

\* the additive score before clamping
RawScore(text, sources, metadata) ==
      WordScore(WordCount(text)) + ParagraphScore(Paragraphs(text))
    + SourceScore(sources) + MetaScore(metadata) - NegativePenalty(text)

ClampScoreNoFloor(s) == Min(100, s)

\* score = max(0, min(100, score))
ClampScore(s) == Max(0, Min(100, s))

DecideLoose(score) ==
    IF score > 40 THEN "sufficient"
    ELSE IF score > 15 THEN "insufficient"
    ELSE "unprocessable"

\* the decision ladder on the clamped score
Decide(score) ==
    IF score >= 40 THEN "sufficient"
    ELSE IF score >= 15 THEN "insufficient"
    ELSE "unprocessable"

\* "; ".join(reasons)
QualityReason(text, sources, metadata) ==
    JoinStr(
        << "word_count=" \o ToString(WordCount(text))
               \o " (+" \o ToString(WordScore(WordCount(text))) \o ")",
           "paragraphs=" \o ToString(Paragraphs(text))
               \o " (+" \o ToString(ParagraphScore(Paragraphs(text))) \o ")",
           SourceReason(sources),
           "metadata (+" \o ToString(MetaScore(metadata)) \o ")" >>
        \o (IF NegativeMatches(text) > 0
              THEN << "negative_signals=" \o ToString(NegativeMatches(text))
                        \o " (-" \o ToString(NegativePenalty(text)) \o ")" >>
              ELSE << >>),
        "; ")

assess_quality(text, sources, metadata) ==
    LET score == ClampScore(RawScore(text, sources, metadata))
    IN  [score |-> score,
         decision |-> Decide(score),
         reason |-> QualityReason(text, sources, metadata)]

\* ------------------------------------------------------------------------
\* Layers 1, 2 and 4: extraction and fusion.  A page is described by what
\* its markup offers each extractor: the head tags (meta), the text each
\* embedded-data script yields to the deep walk (next_data, nuxt_data,
\* json_ld), the semantic containers present in priority order with their
\* cleaned text (containers), the cleaned body text (body), and whether a
\* JSON-LD item carries a @type that is neither a string nor a list
\* (bad_type).
\* ------------------------------------------------------------------------
EmptyText == << >>
Truthy(t) == TextLen(t) > 0

EmbeddedMinLen == 100   \* len(text) >= 100 in the embedded strategies
SemanticMinLen == 100   \* len(text) >= 100 for a semantic container
BodyMinLen == 50        \* len(text) >= 50 for the body fallback

NoExtract == [text |-> EmptyText, source |-> ""]

extract_next_data_long(page) ==
    IF TextLen(page.next_data) >= 4 * EmbeddedMinLen
    THEN [text |-> page.next_data, source |-> "next_data"]
    ELSE NoExtract

extract_next_data(page) ==
    IF TextLen(page.next_data) >= EmbeddedMinLen
    THEN [text |-> page.next_data, source |-> "next_data"]
    ELSE NoExtract

extract_nuxt_data(page) ==
    IF TextLen(page.nuxt_data) >= EmbeddedMinLen
    THEN [text |-> page.nuxt_data, source |-> "nuxt_data"]
    ELSE NoExtract

extract_json_ld(page) ==
    IF TextLen(page.json_ld) >= EmbeddedMinLen
    THEN [text |-> page.json_ld, source |-> "json_ld"]
    ELSE NoExtract

\* any(t in item_type for t in article_types) raises TypeError, which the
\* except clause (JSONDecodeError, AttributeError) does not catch
ExtractionRaises(page) == page.bad_type

RECURSIVE FirstContainer(_)
FirstContainer(cs) ==
    IF cs = << >> THEN [text |-> EmptyText, source |-> "none"]
    ELSE IF TextLen(Head(cs).text) >= SemanticMinLen THEN Head(cs)
    ELSE FirstContainer(Tail(cs))

extract_semantic_content(page) ==
    LET c == FirstContainer(page.containers)
    IN  IF c.source /= "none" THEN c
        ELSE IF TextLen(page.body) >= BodyMinLen
             THEN [text |-> page.body, source |-> "fallback:body"]
             ELSE [text |-> EmptyText, source |-> "none"]

\* for extractor in (...): if text and len(text) > len(best_text)
RECURSIVE BestEmbedded(_, _)
BestEmbedded(rs, best) ==
    IF rs = << >> THEN best
    ELSE BestEmbedded(Tail(rs),
            IF Truthy(Head(rs).text) /\ TextLen(Head(rs).text) > TextLen(best.text)
            THEN Head(rs) ELSE best)

FuseSemanticOnTie(best, sem) ==
    LET text0 == best.text
        src0  == IF Truthy(best.text) THEN << best.source >> ELSE << >>
    IN  IF ~Truthy(sem.text) THEN [text |-> text0, sources |-> src0]
        ELSE IF ~Truthy(text0) \/ TextLen(sem.text) >= TextLen(text0)
             THEN [text |-> sem.text, sources |-> << sem.source >> \o src0]
        ELSE [text |-> text0, sources |-> Append(src0, sem.source)]

\* lines 425-438 of extract_content_from_html
Fuse(best, sem) ==
    LET text0 == best.text
        src0  == IF Truthy(best.text) THEN << best.source >> ELSE << >>
    IN  IF ~Truthy(sem.text) THEN [text |-> text0, sources |-> src0]
        ELSE IF ~Truthy(text0) \/ TextLen(sem.text) > TextLen(text0)
             THEN [text |-> sem.text, sources |-> << sem.source >> \o src0]
        ELSE IF ~InSeq(sem.source, src0)
             THEN [text |-> text0, sources |-> Append(src0, sem.source)]
        ELSE [text |-> text0, sources |-> src0]

PageTitle(m) == IF m.og_title /= "" THEN m.og_title ELSE m.title

extract_content_from_html(page) ==
    LET best  == BestEmbedded(<< extract_next_data(page), extract_nuxt_data(page),
                                 extract_json_ld(page) >>, NoExtract)
        fused == Fuse(best, extract_semantic_content(page))
        q     == assess_quality(fused.text, fused.sources, page.meta)
    IN  [text |-> fused.text,
         title |-> PageTitle(page.meta),
         metadata |-> page.meta,
         sources |-> fused.sources,
         quality_score |-> q.score,
         decision |-> q.decision,
         decision_reason |-> q.reason]

\* ExtractedMetadata
Meta(t, ot, d, od, a, p) ==
    [title |-> t, og_title |-> ot, description |-> d, og_description |-> od,
     author |-> a, published_time |-> p]

NoMeta == Meta("", "", "", "", "", "")

\* the local `extracted` before extract_content_from_html has returned
NoExtracted ==
    [text |-> EmptyText, title |-> "", metadata |-> NoMeta, sources |-> << >>,
     quality_score |-> 0, decision |-> "none", decision_reason |-> ""]

\* ------------------------------------------------------------------------
\* Bounded input families
\* ------------------------------------------------------------------------
LongLine  == [w |-> 50, wl |-> 5, neg |-> 0]    \* 299 characters, 50 words
ParaLine  == [w |-> 1, wl |-> 30, neg |-> 0]    \* 30 characters, 1 word
ShortLine == [w |-> 5, wl |-> 5, neg |-> 0]     \* 29 characters, 5 words
NegLine(n) == [w |-> 0, wl |-> 1, neg |-> n]    \* n markers

\* marker line (if any) first or last, around long, paragraph and short lines
MkText(long, para, short, neg, negLast) ==
       (IF neg > 0 /\ ~negLast THEN << NegLine(neg) >> ELSE << >>)
    \o Repeat(LongLine, long) \o Repeat(ParaLine, para) \o Repeat(ShortLine, short)
    \o (IF neg > 0 /\ negLast THEN << NegLine(neg) >> ELSE << >>)

Texts ==
    { MkText(l, p, s, n, b) :
        l \in 0..MaxLong, p \in 0..MaxPara, s \in 0..MaxShort,
        n \in 0..MaxNeg, b \in BOOLEAN }

\* texts of exactly 30 characters: one word; two lines of 14 and 15
\* characters; four words and one marker; three words and two markers
Texts30 ==
    { << ParaLine >>,
      << [w |-> 1, wl |-> 14, neg |-> 0], [w |-> 1, wl |-> 15, neg |-> 0] >>,
      << [w |-> 4, wl |-> 4, neg |-> 1] >>,
      << [w |-> 3, wl |-> 2, neg |-> 2] >> }

SourceLists ==
    { << >>, << "none" >>, << "fallback:body" >>, << "semantic:main" >>,
      << "semantic:article" >>, << "next_data" >>,
      << "json_ld", "fallback:body" >>, << "semantic:class-match", "nuxt_data" >> }

FullMeta == Meta("T", "OT", "D", "", "A", "")

Metas ==
    { NoMeta, Meta("T", "", "", "", "", ""), Meta("", "OT", "", "", "", ""),
      Meta("", "", "", "OD", "", ""), Meta("T", "", "D", "", "", ""),
      Meta("", "", "", "", "", "P"), Meta("", "", "D", "", "A", ""), FullMeta }

\* ------------------------------------------------------------------------
\* State
\* ------------------------------------------------------------------------
VARIABLES
    \* SpecQuality
    qual,           \* the evaluation in hand: inputs, then inputs and output
    \* Spec: ClaudeAgentService._execute_summarize_url
    summarizer_fn,  \* config.summarizer_function_name is set
    s3db,           \* rows of url_summaries in the database object on S3
    localdb,        \* rows of url_summaries in the worker's /tmp copy
    req,            \* the running request: conversation_id, url, page served
    pc,             \* position inside _execute_summarize_url
    existing,       \* the row the cache lookup returned
    extracted,      \* ExtractedContent of the fetched page
    summary,        \* summary about to be saved
    saver,          \* which method calls save_summary
    exc,            \* str(e) of the exception being handled
    payload,        \* the Lambda's response payload
    result,         \* the string returned to the caller
    trace,          \* collaborator calls of the running request, in order
    \* SpecAgent: ClaudeAgentService.process_message
    apc,            \* position inside process_message
    messages,       \* the message history
    response,       \* the model's latest response
    pending,        \* tool_use blocks still to execute in this round
    tool_results,   \* tool_result blocks collected in this round
    executed,       \* ids of the tool calls executed in this round, in order
    calls,          \* histories sent to the model, one per model call
    answer,         \* the value process_message returns
    \* SpecConc: two workers serving summarize_url for one key
    workers,        \* per worker: position, /tmp copy of the table, locals
    uploads,        \* the successful uploads, in order: worker and summary
    \* SpecDedup: Lambda instances serving webhook deliveries
    handlers,       \* per instance: position, update in hand, /tmp copy, count
    processed_updates,  \* the processed_updates table of the S3 object
    runs            \* per update_id: how often process_message was run

qualVars == << qual >>
pipeVars == << summarizer_fn, s3db, localdb, req, pc, existing,
               extracted, summary, saver, exc, payload, result, trace >>
agentVars == << apc, messages, response, pending, tool_results, executed, calls, answer >>
concVars == << workers, uploads >>
dedupVars == << handlers, processed_updates, runs >>
vars == << qualVars, pipeVars, agentVars, concVars, dedupVars >>

\* ------------------------------------------------------------------------
\* Values shared by the specifications
\* ------------------------------------------------------------------------
None == "<none>"          \* no value yet
Null == "<null>"          \* Python None / JSON null

\* the strings _execute_summarize_url and its helpers return
FixedRefusal == "cannot extract enough content from this page; it may need JavaScript rendering"
ReasonRefusalBare(reason) == "cannot summarize this page"
ReasonRefusal(reason) == "cannot summarize this page. reason: " \o reason
ErrorString(e) == "cannot summarize this page: " \o e
FetchStatusString(status) == "cannot fetch the page (HTTP " \o ToString(status) \o ")"
DefaultReason == "cannot extract content"
DefaultSummary == "cannot generate summary"

\* values of the locals before they are assigned
NoRow == [conversation_id |-> 0, url |-> "", summary_zh_tw |-> "", created_at |-> 0]
NoRequest == [conversation_id |-> 0, url |-> ""]
NoQual == [phase |-> "none"]
NoResponse == [stop_reason |-> "none", content |-> << >>]

Absent == "<absent>"                  \* key not in the payload

\* what json.loads(response["Payload"].read()) can be
LambdaPayloads ==
    { [status |-> "payload", dict |-> TRUE, errorMessage |-> Absent,
       summary_zh_tw |-> "p1", rest |-> TRUE],
      [status |-> "payload", dict |-> TRUE, errorMessage |-> Absent,
       summary_zh_tw |-> "p1", rest |-> FALSE],
      [status |-> "payload", dict |-> TRUE, errorMessage |-> "Task timed out",
       summary_zh_tw |-> Absent, rest |-> FALSE],
      [status |-> "payload", dict |-> TRUE, errorMessage |-> Absent,
       summary_zh_tw |-> Absent, rest |-> FALSE],
      [status |-> "payload", dict |-> TRUE, errorMessage |-> Absent,
       summary_zh_tw |-> Null, rest |-> TRUE],
      [status |-> "payload", dict |-> FALSE, errorMessage |-> Absent,
       summary_zh_tw |-> Absent, rest |-> FALSE] }

\* no invocation yet; an invocation that raised (invoke or json.loads)
NoPayload == [status |-> "none", dict |-> FALSE, errorMessage |-> Absent,
              summary_zh_tw |-> Absent, rest |-> FALSE]
TransportFailure == [status |-> "transport", dict |-> FALSE, errorMessage |-> Absent,
                     summary_zh_tw |-> Absent, rest |-> FALSE]

\* the success payload of summarizer_handler.lambda_handler
Conforming(p) ==
    /\ p.status = "payload" /\ p.dict /\ p.errorMessage = Absent
    /\ p.summary_zh_tw \notin {Absent, Null} /\ p.rest

\* ------------------------------------------------------------------------
\* Pages
\* ------------------------------------------------------------------------
TinyText  == << ShortLine >>                              \* 29 characters
SmallText == << ShortLine, ParaLine >>                    \* 60 characters
ChatText  == Repeat(ShortLine, 4)                         \* 119 characters, 20 words
MedText   == << LongLine >>                               \* 299 characters, 50 words
BigText   == Repeat(LongLine, 10)                         \* 500 words
ShellText == << NegLine(3), LongLine >>                   \* a loading shell

PageTexts == { EmptyText, TinyText, SmallText, ChatText, MedText, BigText, ShellText }

ContainerLists ==
    { << >>,
      << [text |-> BigText, source |-> "semantic:article"] >>,
      << [text |-> TinyText, source |-> "semantic:article"],
         [text |-> MedText, source |-> "semantic:main"] >>,
      << [text |-> ChatText, source |-> "semantic:class-match"] >> }

MkPage(meta, nx, nu, ld, cs, body, bad) ==
    [meta |-> meta, next_data |-> nx, nuxt_data |-> nu, json_ld |-> ld,
     containers |-> cs, body |-> body, bad_type |-> bad]

PageMetas == { NoMeta, Meta("T", "", "", "", "", ""), FullMeta }

Pages ==
    { MkPage(m, nx, nu, ld, cs, b, bad) :
        m \in PageMetas, nx \in {EmptyText, ChatText, MedText},
        nu \in {EmptyText, MedText}, ld \in {EmptyText, TinyText, BigText},
        cs \in ContainerLists, b \in PageTexts, bad \in BOOLEAN }

\* ------------------------------------------------------------------------
\* Hydration payloads.  A payload is a JSON object whose values are strings:
\* a sequence of fields [key, value, url], value being the string as a text
\* and url telling that it starts with http://, https://, data: or /.
\* ------------------------------------------------------------------------
DeepMinLen == 20        \* len(obj) >= 20 in _deep_extract_text

ContentKeys ==
    << "body", "content", "text", "description", "articleBody",
       "abstract", "summary", "excerpt" >>

\* "\n".join(t for t in texts if t)
RECURSIVE JoinTexts(_)
JoinTexts(ts) == IF ts = << >> THEN << >> ELSE Head(ts) \o JoinTexts(Tail(ts))

\* the strings the known content keys contribute, in the order of the keys
Prioritized(obj) ==
    [k \in 1..Len(ContentKeys) |->
        JoinTexts([i \in 1..Len(obj) |->
            IF obj[i].key = ContentKeys[k] /\ TextLen(obj[i].value) >= DeepMinLen
            THEN obj[i].value ELSE << >>])]

\* _deep_extract_text of a string value
DeepString(f) ==
    IF TextLen(f.value) >= DeepMinLen /\ ~f.url THEN f.value ELSE << >>

\* _deep_extract_text of the object: the known content keys first, then the
\* walk over all the values, which meets the same strings again
deep_extract_text(obj) ==
    JoinTexts(Prioritized(obj) \o [i \in 1..Len(obj) |-> DeepString(obj[i])])

Field(k, v, u) == [key |-> k, value |-> v, url |-> u]

\* 150 characters of prose: a line of 95 and a line of 54 characters
Prose150 == << [w |-> 16, wl |-> 5, neg |-> 0], [w |-> 11, wl |-> 4, neg |-> 0] >>

HydrationPayloads ==
    { << Field("body", Prose150, FALSE) >>,
      << Field("title", << [w |-> 2, wl |-> 5, neg |-> 0] >>, FALSE),
         Field("body", Prose150, FALSE),
         Field("image", << [w |-> 1, wl |-> 40, neg |-> 0] >>, TRUE) >>,
      << Field("headline", Prose150, FALSE) >>,
      << Field("body", TinyText, FALSE) >> }

\* ------------------------------------------------------------------------
\* JSON values of any nesting.  A node is [kind, id, len, prefix, items]:
\* a string has a length and a prefix (the empty prefix for prose), a dict
\* or list has items [key, val] (the key of a list item is "").  The id of
\* a string names it, so that its occurrences in the output can be counted.
\* ------------------------------------------------------------------------
MaxNest == 6            \* deepest nesting of the objects walked

DefaultMaxDepth == 5    \* max_depth: int = 5

SkippedPrefixes == { "http://", "https://", "data:", "/" }

Str(id, len, prefix) ==
    [kind |-> "str", id |-> id, len |-> len, prefix |-> prefix, items |-> << >>]

Num == [kind |-> "num", id |-> "", len |-> 0, prefix |-> "", items |-> << >>]

Dict(items) ==
    [kind |-> "dict", id |-> "", len |-> 0, prefix |-> "", items |-> items]

List(vals) ==
    [kind |-> "list", id |-> "", len |-> 0, prefix |-> "",
     items |-> [i \in 1..Len(vals) |-> [key |-> "", val |-> vals[i]]]]

Item(k, v) == [key |-> k, val |-> v]

\* for key in (...): if key in obj and isinstance(obj[key], str)
\*                       and len(obj[key]) >= 20: texts.append(obj[key])
Harvest(node) ==
    JoinTexts([k \in 1..Len(ContentKeys) |->
        JoinTexts([i \in 1..Len(node.items) |->
            IF /\ node.items[i].key = ContentKeys[k]
               /\ node.items[i].val.kind = "str"
               /\ node.items[i].val.len >= DeepMinLen
            THEN << node.items[i].val >> ELSE << >>])])

\* _deep_extract_text: the strings collected, in the order of the output
RECURSIVE DeepWalk(_, _)
DeepWalk(node, max_depth) ==
    IF max_depth <= 0 THEN << >>
    ELSE IF node.kind = "str"
         THEN IF node.len >= DeepMinLen /\ node.prefix \notin SkippedPrefixes
              THEN << node >> ELSE << >>
    ELSE IF node.kind = "dict"
         THEN Harvest(node)
              \o JoinTexts([i \in 1..Len(node.items) |->
                    DeepWalk(node.items[i].val, max_depth - 1)])
    ELSE IF node.kind = "list"
         THEN JoinTexts([i \in 1..Len(node.items) |->
                    DeepWalk(node.items[i].val, max_depth - 1)])
    ELSE << >>

\* n containers around the node, dicts and lists in turn
RECURSIVE Nest(_, _)
Nest(n, node) ==
    IF n = 0 THEN node
    ELSE IF n % 2 = 1 THEN Dict(<< Item("props", Nest(n - 1, node)) >>)
    ELSE List(<< Nest(n - 1, node) >>)

JsonStrings ==
    { Str("s", 40, ""), Str("s", 20, ""), Str("s", 19, ""),
      Str("s", 40, "http://"), Str("s", 40, "https://"),
      Str("s", 40, "data:"), Str("s", 40, "/") }

JsonKeys == { "body", "summary", "title" }

JsonObjects ==
    { Nest(n, Dict(<< Item(k, v) >>)) :
        n \in 0..MaxNest, k \in JsonKeys, v \in JsonStrings }
    \cup { Nest(n, Dict(<< Item("title", Str("t", 12, "")),
                          Item("id", Num),
                          Item("excerpt", Str("e", 25, "")),
                          Item("body", Str("b", 150, "")),
                          Item("tags", List(<< Str("g", 30, ""), Str("h", 5, "") >>)),
                          Item("image", Str("i", 40, "https://")) >>)) :
            n \in 0..MaxNest }

\* a page whose only content is the script tag of the hydration payload
HydrationPage(tag, obj, meta) ==
    MkPage(meta,
           IF tag = "next_data" THEN deep_extract_text(obj) ELSE EmptyText,
           IF tag = "nuxt_data" THEN deep_extract_text(obj) ELSE EmptyText,
           EmptyText, << >>, EmptyText, FALSE)

HydrationTags == { "next_data", "nuxt_data" }

HydrationPages ==
    { HydrationPage(tag, obj, m) :
        tag \in HydrationTags, obj \in HydrationPayloads, m \in PageMetas }

\* ------------------------------------------------------------------------
\* SpecQuality: one evaluation of assess_quality or extract_content_from_html
\* ------------------------------------------------------------------------
PipeIdle ==
    /\ summarizer_fn = FALSE
    /\ s3db = << >> /\ localdb = << >>
    /\ req = NoRequest /\ pc = "idle" /\ existing = NoRow /\ extracted = NoExtracted /\ summary = None
    /\ saver = None /\ exc = None /\ payload = NoPayload /\ result = None
    /\ trace = << >>

AgentIdle ==
    /\ apc = "idle" /\ messages = << >> /\ response = NoResponse /\ pending = << >>
    /\ tool_results = << >> /\ executed = << >> /\ calls = << >> /\ answer = None

\* one Lambda execution environment per concurrent request
WorkerIds == { 1, 2 }

IdleWorker ==
    [pc |-> "idle", local |-> << >>, missed |-> FALSE, saver |-> None,
     summary |-> None, result |-> None]

MaxDeliveries == 2      \* webhook deliveries one instance serves

UpdateIds == { 101, 102 }

IdleHandler == [pc |-> "idle", update |-> 0, local |-> {}, served |-> 0]

DedupIdle ==
    /\ handlers = [w \in WorkerIds |-> IdleHandler]
    /\ processed_updates = {}
    /\ runs = [u \in UpdateIds |-> 0]

ConcIdle ==
    /\ workers = [w \in WorkerIds |-> IdleWorker] /\ uploads = << >>
    /\ DedupIdle

InitQuality ==
    /\ qual \in [phase : {"input"}, text : Texts \cup Texts30,
                  sources : SourceLists, metadata : Metas]
                \cup [phase : {"page"}, page : Pages \cup HydrationPages]
                \cup [phase : {"json"}, obj : JsonObjects]
    /\ PipeIdle /\ AgentIdle /\ ConcIdle

AssessQuality ==
    /\ qual.phase = "input"
    /\ qual' = [phase |-> "assessed", text |-> qual.text, sources |-> qual.sources,
                metadata |-> qual.metadata,
                out |-> assess_quality(qual.text, qual.sources, qual.metadata)]
    /\ UNCHANGED << pipeVars, agentVars, concVars, dedupVars >>

ExtractContent ==
    /\ qual.phase = "page"
    /\ qual' = IF ExtractionRaises(qual.page)
               THEN [phase |-> "raised", page |-> qual.page]
               ELSE [phase |-> "extracted", page |-> qual.page,
                     out |-> extract_content_from_html(qual.page)]
    /\ UNCHANGED << pipeVars, agentVars, concVars, dedupVars >>

\* text = _deep_extract_text(page_props)
DeepExtract ==
    /\ qual.phase = "json"
    /\ qual' = [phase |-> "walked", obj |-> qual.obj,
                collected |-> DeepWalk(qual.obj, DefaultMaxDepth)]
    /\ UNCHANGED << pipeVars, agentVars, concVars, dedupVars >>

NextQuality == AssessQuality \/ ExtractContent \/ DeepExtract

SpecQuality == InitQuality /\ [][NextQuality]_vars

\* C5: for every text, source-tag list and metadata, assess_quality returns
\* an integer score between 0 and 100 (and one of the three decisions); the
\* result is a function of the three arguments alone.
C5_ScoreInRange ==
    /\ qual.phase = "assessed" =>
          /\ qual.out.score \in 0..100
          /\ qual.out.decision \in {"sufficient", "insufficient", "unprocessable"}
    /\ qual.phase = "extracted" => qual.out.quality_score \in 0..100

\* a loading shell whose penalties outweigh its positive points: the floor of
\* the clamp is what keeps the score in range
C5_Witness ==
    /\ qual.phase = "assessed"
    /\ RawScore(qual.text, qual.sources, qual.metadata) < 0
    /\ qual.out.score = 0

\* C6: the decision is determined by the clamped score: >= 40 sufficient,
\* 15..39 insufficient, < 15 unprocessable, for assess_quality and for every
\* ExtractedContent that extract_content_from_html returns.
C6_DecisionFromScore ==
    LET Related(score, decision) ==
            /\ score >= 40 => decision = "sufficient"
            /\ (score >= 15 /\ score <= 39) => decision = "insufficient"
            /\ score < 15 => decision = "unprocessable"
    IN  /\ qual.phase = "assessed" => Related(qual.out.score, qual.out.decision)
        /\ qual.phase = "extracted" => Related(qual.out.quality_score, qual.out.decision)

\* an extracted page that scores exactly 40, the lowest sufficient score
C6_Witness ==
    /\ qual.phase = "extracted"
    /\ qual.out.quality_score = 40
    /\ qual.out.decision = "sufficient"

RecognizedTags == high_confidence_sources \cup medium_confidence_sources \cup {"fallback:body"}
Unrecognized(sources) == \A i \in 1..Len(sources) : sources[i] \notin RecognizedTags

\* number of metadata signals present: title, description, author or time
Signals(m) ==
      (IF m.title /= "" \/ m.og_title /= "" THEN 1 ELSE 0)
    + (IF m.description /= "" \/ m.og_description /= "" THEN 1 ELSE 0)
    + (IF m.author /= "" \/ m.published_time /= "" THEN 1 ELSE 0)

ShortUntagged ==
    /\ qual.phase = "assessed"
    /\ TextLen(qual.text) = 30
    /\ Unrecognized(qual.sources)

\* C17 as stated: a text of exactly 30 characters with no recognized source
\* tag scores at most 10 and is unprocessable, whatever the metadata.
C17_AsStated ==
    ShortUntagged => (qual.out.score <= 10 /\ qual.out.decision = "unprocessable")

\* C17 (amended): a text of exactly 30 characters with no recognized source
\* tag scores at most 5 plus 5 per metadata signal; with at most one signal
\* the score is at most 10 and the decision unprocessable; a single line of
\* 30 characters without negative markers and with two or three signals
\* scores 15 or 20 and is insufficient.
C17_ShortTextNoSource ==
    ShortUntagged =>
        /\ qual.out.score <= 5 + 5 * Signals(qual.metadata)
        /\ Signals(qual.metadata) <= 1 =>
              (qual.out.score <= 10 /\ qual.out.decision = "unprocessable")
        /\ (Signals(qual.metadata) >= 2 /\ Len(qual.text) = 1
              /\ \A i \in 1..Len(qual.text) : qual.text[i].neg = 0) =>
              /\ qual.out.score = 5 + 5 * Signals(qual.metadata)
              /\ qual.out.decision = "insufficient"

\* a 30-character line with one metadata signal: score 10, unprocessable
C17_Witness ==
    /\ ShortUntagged
    /\ Signals(qual.metadata) = 1
    /\ qual.out.score = 10
    /\ qual.out.decision = "unprocessable"

\* the same text with every "Loading..." taken out
WithoutMarkers(t) == [i \in 1..Len(t) |-> [t[i] EXCEPT !.neg = 0]]

Markers(t) == SumSeq([i \in 1..Len(t) |-> t[i].neg])

\* the score of the assessed text once its markers are taken out
BaseScore == assess_quality(WithoutMarkers(qual.text), qual.sources, qual.metadata).score

\* the assessed text holds "Loading..." exactly three times, all of them
\* within its first 3000 characters
ThreeMarkers ==
    /\ qual.phase = "assessed"
    /\ Markers(qual.text) = 3
    /\ NegativeMatches(qual.text) = 3

\* the markers move the text across no word-count or paragraph threshold
SameBands(t) ==
    /\ WordScore(WordCount(t)) = WordScore(WordCount(WithoutMarkers(t)))
    /\ ParagraphScore(Paragraphs(t)) = ParagraphScore(Paragraphs(WithoutMarkers(t)))

\* C18 as stated: three "Loading..." within the first 3000 characters make
\* the score exactly 30 lower than that of the text without them, for every
\* text, source list and metadata.
C18_AsStated ==
    ThreeMarkers => qual.out.score = BaseScore - 30

\* C18 (amended): with three "Loading..." within the first 3000 characters
\* the score is exactly 30 lower than without them whenever the score without
\* them is at least 30 and the markers move the text across no word-count or
\* paragraph threshold; in every case it is no higher than without them and
\* at most 30 lower, and a fourth marker lowers it no further than 30.
C18_CappedPenalty ==
    /\ ThreeMarkers =>
          /\ (BaseScore >= 30 /\ SameBands(qual.text)) => qual.out.score = BaseScore - 30
          /\ qual.out.score <= BaseScore
    /\ (qual.phase = "assessed" /\ NegativeMatches(qual.text) >= 3) =>
          qual.out.score >= BaseScore - 30

\* three markers ahead of a 50-word line: 30 points lower, still above 0
C18_Witness ==
    /\ ThreeMarkers
    /\ SameBands(qual.text)
    /\ BaseScore >= 40
    /\ qual.out.score = BaseScore - 30

\* an assessed text of 500 words or more in 5 or more lines of 30 characters
\* or more, with a high-confidence tag and all three metadata signals
RichInput ==
    /\ qual.phase = "assessed"
    /\ WordCount(qual.text) >= 500
    /\ Cardinality({ i \in 1..Len(qual.text) : LineLen(qual.text[i]) >= 30 }) >= 5
    /\ \E i \in 1..Len(qual.sources) : qual.sources[i] \in high_confidence_sources
    /\ Signals(qual.metadata) = 3

\* C19 as stated: every such input scores at least 95 and is sufficient.
C19_AsStated ==
    RichInput => (qual.out.score >= 95 /\ qual.out.decision = "sufficient")

\* C19 (amended): every such input is sufficient; it scores 100 when the
\* text holds no negative marker, and otherwise 100 less 10 per marker found
\* in the first 3000 characters, never below 70.
C19_RichInputSufficient ==
    RichInput =>
        /\ qual.out.decision = "sufficient"
        /\ qual.out.score >= 70
        /\ Markers(qual.text) = 0 => qual.out.score = 100
        /\ qual.out.score \in { 100 - 10 * k : k \in 0..Min(Markers(qual.text), 3) }

\* exactly 500 words in ten lines, no marker: the full score
C19_Witness ==
    /\ RichInput
    /\ WordCount(qual.text) = 500
    /\ Markers(qual.text) = 0
    /\ qual.out.score = 100
    /\ qual.out.decision = "sufficient"

\* the payload has a body field holding the 150 characters of prose
HasProseBody(obj) == \E i \in 1..Len(obj) : obj[i].key = "body" /\ obj[i].value = Prose150

\* C20: for a page whose only content is a hydration payload with a body
\* field of 150 characters of prose, extract_content_from_html returns the
\* text of the embedded-data extractor (which holds the prose) as the working
\* text, and the hydration tag is the first and only source tag.
C20_HydrationOnly ==
    \A tag \in HydrationTags, obj \in HydrationPayloads, m \in PageMetas :
        (qual.phase \in {"extracted", "raised"} /\ HasProseBody(obj)
            /\ qual.page = HydrationPage(tag, obj, m)) =>
              /\ qual.phase = "extracted"
              /\ qual.out.sources = << tag >>
              /\ qual.out.text = deep_extract_text(obj)
              /\ SubSeq(qual.out.text, 1, Len(Prose150)) = Prose150
              /\ TextLen(qual.out.text) >= 150

\* the page of the claim with a Next.js payload {"body": prose}: the working
\* text is the prose, met twice by the walk, and the only tag is next_data
C20_Witness ==
    /\ qual.phase = "extracted"
    /\ qual.page = HydrationPage("next_data", << Field("body", Prose150, FALSE) >>, NoMeta)
    /\ qual.out.sources = << "next_data" >>
    /\ qual.out.text = Prose150 \o Prose150

\* the three embedded-data strategies, in the order they are tried
EmbeddedResults(page) ==
    << extract_next_data(page), extract_nuxt_data(page), extract_json_ld(page) >>

\* the embedded-data contribution: the longest result, the earliest on a tie
LongestEmbedded(page) ==
    LET rs == EmbeddedResults(page)
        i  == CHOOSE i \in 1..3 :
                /\ \A j \in 1..3 : TextLen(rs[j].text) <= TextLen(rs[i].text)
                /\ \A j \in 1..(i - 1) : TextLen(rs[j].text) < TextLen(rs[i].text)
    IN  rs[i]

NoDuplicates(q) == \A i, j \in 1..Len(q) : q[i] = q[j] => i = j

\* C24: the working text is the longer of the embedded-data text and the
\* semantic text (the embedded text on a tie); the first source tag is the
\* tag of the extractor that produced the working text; the tag of the other
\* contributor follows it whenever that contributor was non-empty; the list
\* has no duplicates and is empty exactly when the working text is empty.
C24_Fusion ==
    qual.phase = "extracted" =>
        LET emb     == LongestEmbedded(qual.page)
            sem     == extract_semantic_content(qual.page)
            semWins == TextLen(sem.text) > TextLen(emb.text)
            winner  == IF semWins THEN sem ELSE emb
            other   == IF semWins THEN emb ELSE sem
            out     == qual.out
        IN  /\ out.text = winner.text
            /\ TextLen(out.text) > 0 => out.sources[1] = winner.source
            /\ TextLen(other.text) > 0 =>
                  (Len(out.sources) = 2 /\ out.sources[2] = other.source)
            /\ TextLen(other.text) = 0 => Len(out.sources) <= 1
            /\ NoDuplicates(out.sources)
            /\ (out.sources = << >>) <=> (TextLen(out.text) = 0)

\* a tie between the embedded text and the semantic text: the embedded text
\* is kept and its tag comes first
C24_Witness ==
    /\ qual.phase = "extracted"
    /\ TextLen(LongestEmbedded(qual.page).text) > 0
    /\ TextLen(LongestEmbedded(qual.page).text)
          = TextLen(extract_semantic_content(qual.page).text)
    /\ qual.out.sources = << "next_data", "semantic:main" >>

\* the strings of a JSON value with the number of containers above each
RECURSIVE StringsAt(_, _)
StringsAt(node, depth) ==
    IF node.kind = "str" THEN { [id |-> node.id, depth |-> depth] }
    ELSE UNION { StringsAt(node.items[i].val, depth + 1) : i \in 1..Len(node.items) }

Occurrences(q, id) == Cardinality({ i \in 1..Len(q) : q[i].id = id })

LooksLikeUrl(node) == node.prefix \in { "http://", "https://", "data:" }

\* C25: no string collected by the deep walk is shorter than 20 characters
\* or starts with http://, https:// or data:, the strings found under the
\* high-value keys included.
C25_NoShortOrUrlString ==
    qual.phase = "walked" =>
        \A i \in 1..Len(qual.collected) :
            /\ qual.collected[i].len >= DeepMinLen
            /\ ~LooksLikeUrl(qual.collected[i])

\* C26: in a dict the high-value keys are harvested first and only the
\* other values are recursed into, so every string of the object occurs at
\* most once in the output, and no string below depth 5 is collected.
C26_AtMostOnce ==
    qual.phase = "walked" =>
        \A s \in StringsAt(qual.obj, 0) :
            /\ Occurrences(qual.collected, s.id) <= 1
            /\ Occurrences(qual.collected, s.id) > 0 => s.depth <= DefaultMaxDepth

\* C23: a parse failure in one embedded-data strategy (here the JSON-LD item
\* whose @type is neither a string nor a list) only empties that strategy:
\* extract_content_from_html still returns an ExtractedContent and does not
\* raise.
C23_ParseFailureContained ==
    qual.phase \in {"extracted", "raised"} => qual.phase = "extracted"

\* ------------------------------------------------------------------------
\* Spec: _execute_summarize_url against the url_summaries table
\* ------------------------------------------------------------------------
MaxRows == 2         \* requests are issued while url_summaries holds fewer rows

Keys == { << 1, "a" >>, << 1, "b" >>, << 2, "a" >> }   \* (conversation_id, url)

\* pages served to the pipeline, one per routing case
PipelinePages ==
    { MkPage(FullMeta, EmptyText, EmptyText, EmptyText,
             << [text |-> BigText, source |-> "semantic:article"] >>, BigText, FALSE),
      MkPage(NoMeta, ChatText, EmptyText, EmptyText, << >>, TinyText, FALSE),
      MkPage(NoMeta, EmptyText, EmptyText, EmptyText, << >>, MedText, FALSE),
      MkPage(FullMeta, EmptyText, EmptyText, EmptyText, << >>, EmptyText, FALSE),
      MkPage(NoMeta, EmptyText, EmptyText, EmptyText, << >>, SmallText, FALSE),
      MkPage(NoMeta, EmptyText, EmptyText, EmptyText, << >>, EmptyText, FALSE),
      MkPage(FullMeta, EmptyText, EmptyText, BigText, << >>, BigText, TRUE) }

ModelSummaries == { "m1", "m2" }      \* summary_response.content[0].text

reliable_sources ==
    {"next_data", "nuxt_data", "json_ld", "semantic:article", "semantic:main",
     "semantic:role-main", "semantic:id-match", "semantic:class-match"}

has_reliable_source(sources) == \E i \in 1..Len(sources) : sources[i] \in reliable_sources

MatchingRowsAnyConversation(db, conversation_id, url) ==
    { i \in 1..Len(db) : db[i].url = url }

\* WHERE conversation_id = ? AND url = ?
MatchingRows(db, conversation_id, url) ==
    { i \in 1..Len(db) : db[i].conversation_id = conversation_id /\ db[i].url = url }

\* ORDER BY created_at DESC LIMIT 1: the rows the query may return (rows
\* created in the same second are in no specified order)
get_summary_by_url(db, conversation_id, url) ==
    LET m == MatchingRows(db, conversation_id, url)
    IN  { db[i] : i \in { j \in m : \A k \in m : db[k].created_at <= db[j].created_at } }

\* the branch _execute_summarize_url takes on an ExtractedContent
RouteAlwaysRefuseEmpty(e, configured) ==
    IF e.decision = "sufficient" THEN "summarize"
    ELSE IF e.decision = "insufficient" THEN
        IF Truthy(e.text) /\ has_reliable_source(e.sources) THEN "summarize"
        ELSE IF ~Truthy(e.text) THEN "refuse_fixed"
        ELSE IF configured THEN "notice_incomplete"
        ELSE "summarize"
    ELSE IF configured THEN "notice_special" ELSE "refuse_reason"

RouteEscalatesFirst(e, configured) ==
    IF e.decision = "sufficient"
    THEN IF configured THEN "notice_special" ELSE "summarize"
    ELSE IF e.decision = "insufficient" THEN
        IF Truthy(e.text) /\ has_reliable_source(e.sources) THEN "summarize"
        ELSE IF configured THEN "notice_incomplete"
        ELSE IF Truthy(e.text) THEN "summarize"
        ELSE "refuse_fixed"
    ELSE IF configured THEN "notice_special" ELSE "refuse_reason"

Route(e, configured) ==
    IF e.decision = "sufficient" THEN "summarize"
    ELSE IF e.decision = "insufficient" THEN
        IF Truthy(e.text) /\ has_reliable_source(e.sources) THEN "summarize"
        ELSE IF configured THEN "notice_incomplete"
        ELSE IF Truthy(e.text) THEN "summarize"
        ELSE "refuse_fixed"
    ELSE IF configured THEN "notice_special" ELSE "refuse_reason"

Init ==
    /\ qual = NoQual /\ AgentIdle /\ ConcIdle
    /\ summarizer_fn \in BOOLEAN
    /\ s3db = << >> /\ localdb = << >>
    /\ req = NoRequest /\ pc = "idle" /\ existing = NoRow /\ extracted = NoExtracted /\ summary = None
    /\ saver = None /\ exc = None /\ payload = NoPayload /\ result = None
    /\ trace = << >>

Log(e) == trace' = Append(trace, e)

\* the agent loop dispatches summarize_url(url) for a conversation
Request ==
    /\ pc = "idle" /\ Len(s3db) < MaxRows
    /\ \E k \in Keys, page \in PipelinePages :
          req' = [conversation_id |-> k[1], url |-> k[2], page |-> page]
    /\ pc' = "lookup"
    /\ UNCHANGED << summarizer_fn, existing, s3db, localdb, extracted,
                    summary, saver, exc, payload, result, trace >>

\* existing = self.url_repo.get_summary_by_url(...): a read-only connection
\* downloads the database afresh; a hit returns the stored summary
CacheLookup ==
    /\ pc = "lookup"
    /\ Log("lookup")
    /\ \/ /\ pc' = "raised"                      \* the download fails
          /\ UNCHANGED << localdb, existing, result >>
       \/ /\ localdb' = s3db
          /\ LET hits == get_summary_by_url(s3db, req.conversation_id, req.url)
             IN  IF hits = {}
                 THEN pc' = "fetch" /\ UNCHANGED << existing, result >>
                 ELSE \E r \in hits :
                        existing' = r /\ result' = r.summary_zh_tw /\ pc' = "done"
    /\ UNCHANGED << summarizer_fn, s3db, req, extracted,
                    summary, saver, exc, payload >>

\* html = await self._fetch_html(url)
FetchHtml ==
    /\ pc = "fetch"
    /\ Log("fetch")
    /\ \/ pc' = "extract" /\ UNCHANGED exc
       \/ pc' = "except" /\ exc' = "HTTP 503"
    /\ UNCHANGED << summarizer_fn, existing, s3db, localdb, req,
                    extracted, summary, saver, payload, result >>

\* extracted = extract_content_from_html(html), then the routing on its decision
ExtractAndRoute ==
    /\ pc = "extract"
    /\ Log("extract")
    /\ IF ExtractionRaises(req.page)
       THEN pc' = "except" /\ exc' = "TypeError" /\ UNCHANGED << extracted, result >>
       ELSE LET e == extract_content_from_html(req.page)
                r == Route(e, summarizer_fn)
            IN  /\ extracted' = e
                /\ UNCHANGED exc
                /\ pc' = CASE r = "summarize" -> "summarize"
                           [] r = "notice_incomplete" -> "notice_incomplete"
                           [] r = "notice_special" -> "notice_special"
                           [] OTHER -> "done"
                /\ result' = CASE r = "refuse_fixed" -> FixedRefusal
                               [] r = "refuse_reason" ->
                                    ReasonRefusal(IF e.decision_reason /= ""
                                                  THEN e.decision_reason ELSE DefaultReason)
                               [] OTHER -> result
    /\ UNCHANGED << summarizer_fn, existing, s3db, localdb, req,
                    summary, saver, payload >>

\* summary_response = self.client.messages.create(...) in _summarize_content
SummarizeContent ==
    /\ pc = "summarize"
    /\ Log("model")
    /\ \/ \E m \in ModelSummaries :
             summary' = m /\ saver' = "direct" /\ pc' = "save" /\ UNCHANGED exc
       \/ pc' = "except" /\ exc' = "model error" /\ UNCHANGED << summary, saver >>
    /\ UNCHANGED << summarizer_fn, existing, s3db, localdb, req,
                    extracted, payload, result >>

\* created_at DEFAULT CURRENT_TIMESTAMP, in seconds: not before the newest
\* row of the table, and in the same second or a later one.  Only the order
\* of created_at among the rows of one key is ever read (get_summary_by_url),
\* so the values are kept as small as that order allows
Newest(db) ==
    IF db = << >> THEN 0
    ELSE CHOOSE c \in { db[i].created_at : i \in 1..Len(db) } :
            \A i \in 1..Len(db) : db[i].created_at <= c

Timestamps(db, conversation_id, url) ==
    IF MatchingRows(db, conversation_id, url) = {} THEN { Newest(db) }
    ELSE { Newest(db), Newest(db) + 1 }

\* where an exception raised by save_summary lands, by caller
SaveRaises(e) ==
    CASE saver = "direct" -> pc' = "except" /\ exc' = e /\ UNCHANGED result
      [] saver = "playwright" -> pc' = "simple_fetch" /\ UNCHANGED << exc, result >>
      [] OTHER -> pc' = "done" /\ result' = ErrorString(e) /\ UNCHANGED exc

\* self.url_repo.save_summary(...): INSERT into the local copy, commit, then
\* upload the local copy over the S3 object; the caller returns the summary
SaveSummary ==
    /\ pc = "save"
    /\ IF summary = Null
       THEN /\ Log("insert_rejected")            \* summary_zh_tw TEXT NOT NULL
            /\ SaveRaises("IntegrityError")
            /\ UNCHANGED << s3db, localdb >>
       ELSE \E now \in Timestamps(localdb, req.conversation_id, req.url) :
            /\ localdb' = Append(localdb,
                    [conversation_id |-> req.conversation_id, url |-> req.url,
                     summary_zh_tw |-> summary, created_at |-> now])
            /\ \/ /\ s3db' = localdb'
                  /\ trace' = trace \o << "insert:" \o saver, "upload" >>
                  /\ result' = summary /\ pc' = "done" /\ UNCHANGED exc
               \/ /\ UNCHANGED s3db
                  /\ trace' = trace \o << "insert:" \o saver, "upload_failed" >>
                  /\ SaveRaises("upload failed")
    /\ UNCHANGED << summarizer_fn, existing, req, extracted, summary, saver,
                    payload >>

\* except Exception as e: fall back to Playwright if available
ExceptHandler ==
    /\ pc = "except"
    /\ IF summarizer_fn
       THEN pc' = "notice_special" /\ UNCHANGED result
       ELSE pc' = "done" /\ result' = ErrorString(exc)
    /\ UNCHANGED << summarizer_fn, existing, s3db, localdb, req,
                    extracted, summary, saver, exc, payload, trace >>

SendNoticeAborts ==
    /\ pc \in {"notice_incomplete", "notice_special"}
    /\ \E e \in {"notice_sent", "notice_failed", "notice_skipped"} :
          /\ Log(e)
          /\ pc' = IF e = "notice_sent" THEN "invoke" ELSE "raised"
    /\ UNCHANGED << summarizer_fn, existing, s3db, localdb, req,
                    extracted, summary, saver, exc, payload, result >>

\* await self._send_telegram_message(...): the message is delivered, or the
\* POST fails, or bot_token / chat_id is missing; the method returns in all
\* three cases
SendNotice ==
    /\ pc \in {"notice_incomplete", "notice_special"}
    /\ \E e \in {"notice_sent", "notice_failed", "notice_skipped"} : Log(e)
    /\ pc' = "invoke"
    /\ UNCHANGED << summarizer_fn, existing, s3db, localdb, req,
                    extracted, summary, saver, exc, payload, result >>

PlaywrightInvokeReraises ==
    /\ pc = "invoke"
    /\ Log("invoke")
    /\ \/ /\ payload' = TransportFailure
          /\ pc' = "except" /\ exc' = "invoke failed"
          /\ UNCHANGED << summary, saver, result >>
       \/ \E p \in LambdaPayloads :
          /\ payload' = p
          /\ UNCHANGED exc
          /\ IF ~p.dict
             THEN pc' = "simple_fetch" /\ UNCHANGED << summary, saver, result >>
             ELSE IF p.errorMessage /= Absent
             THEN /\ pc' = "done" /\ result' = ErrorString(p.errorMessage)
                  /\ UNCHANGED << summary, saver >>
             ELSE /\ summary' = IF p.summary_zh_tw = Absent THEN DefaultSummary
                                ELSE p.summary_zh_tw
                  /\ saver' = "playwright" /\ pc' = "save" /\ UNCHANGED result
    /\ UNCHANGED << summarizer_fn, existing, s3db, localdb, req, extracted >>

\* _playwright_summarize: invoke the Lambda and read its payload
PlaywrightInvoke ==
    /\ pc = "invoke"
    /\ Log("invoke")
    /\ \/ /\ payload' = TransportFailure          \* invoke or json.loads raises
          /\ pc' = "simple_fetch"
          /\ UNCHANGED << summary, saver, result >>
       \/ \E p \in LambdaPayloads :
          /\ payload' = p
          /\ IF ~p.dict
             THEN pc' = "simple_fetch" /\ UNCHANGED << summary, saver, result >>
             ELSE IF p.errorMessage /= Absent
             THEN /\ pc' = "done" /\ result' = ErrorString(p.errorMessage)
                  /\ UNCHANGED << summary, saver >>
             ELSE /\ summary' = IF p.summary_zh_tw = Absent THEN DefaultSummary
                                ELSE p.summary_zh_tw
                  /\ saver' = "playwright" /\ pc' = "save" /\ UNCHANGED result
    /\ UNCHANGED << summarizer_fn, existing, s3db, localdb, req,
                    extracted, exc >>

\* _simple_summarize: a second GET of the url
SimpleFetch ==
    /\ pc = "simple_fetch"
    /\ Log("fetch")
    /\ \/ pc' = "simple_model" /\ UNCHANGED result
       \/ pc' = "done" /\ result' = FetchStatusString(503)
       \/ pc' = "done" /\ result' = ErrorString("timeout")
    /\ UNCHANGED << summarizer_fn, existing, s3db, localdb, req,
                    extracted, summary, saver, exc, payload >>

\* _simple_summarize: the model call on the tag-stripped page
SimpleModel ==
    /\ pc = "simple_model"
    /\ Log("model")
    /\ \/ \E m \in ModelSummaries :
             summary' = m /\ saver' = "simple" /\ pc' = "save" /\ UNCHANGED result
       \/ pc' = "done" /\ result' = ErrorString("model error")
             /\ UNCHANGED << summary, saver >>
    /\ UNCHANGED << summarizer_fn, existing, s3db, localdb, req,
                    extracted, exc, payload >>

\* the call returns (or raises) to _handle_tool_use.  The local copy is not
\* read again before the next read-only connection downloads a fresh one, so
\* it is dropped with the locals of the call
Return ==
    /\ pc \in {"done", "raised"}
    /\ pc' = "idle"
    /\ req' = NoRequest /\ existing' = NoRow /\ extracted' = NoExtracted /\ summary' = None /\ saver' = None
    /\ exc' = None /\ payload' = NoPayload /\ result' = None /\ trace' = << >>
    /\ localdb' = << >>
    /\ UNCHANGED << summarizer_fn, s3db >>

Next ==
    \/ (Request /\ UNCHANGED << qualVars, agentVars, concVars, dedupVars >>)
    \/ (CacheLookup /\ UNCHANGED << qualVars, agentVars, concVars, dedupVars >>)
    \/ (FetchHtml /\ UNCHANGED << qualVars, agentVars, concVars, dedupVars >>)
    \/ (ExtractAndRoute /\ UNCHANGED << qualVars, agentVars, concVars, dedupVars >>)
    \/ (SummarizeContent /\ UNCHANGED << qualVars, agentVars, concVars, dedupVars >>)
    \/ (SaveSummary /\ UNCHANGED << qualVars, agentVars, concVars, dedupVars >>)
    \/ (ExceptHandler /\ UNCHANGED << qualVars, agentVars, concVars, dedupVars >>)
    \/ (SendNotice /\ UNCHANGED << qualVars, agentVars, concVars, dedupVars >>)
    \/ (PlaywrightInvoke /\ UNCHANGED << qualVars, agentVars, concVars, dedupVars >>)
    \/ (SimpleFetch /\ UNCHANGED << qualVars, agentVars, concVars, dedupVars >>)
    \/ (SimpleModel /\ UNCHANGED << qualVars, agentVars, concVars, dedupVars >>)
    \/ (Return /\ UNCHANGED << qualVars, agentVars, concVars, dedupVars >>)

Spec == Init /\ [][Next]_vars

TypeOKPipe ==
    /\ pc \in {"idle", "lookup", "fetch", "extract", "summarize", "save", "except",
               "notice_incomplete", "notice_special", "invoke", "simple_fetch",
               "simple_model", "done", "raised"}
    /\ Len(s3db) <= MaxRows + 2

\* ------------------------------------------------------------------------
\* Properties of _execute_summarize_url (checked under Spec)
\* ------------------------------------------------------------------------
Count(seq, e) == Cardinality({ i \in 1..Len(seq) : seq[i] = e })

Inserts == { "insert:direct", "insert:playwright", "insert:simple" }
Wrote(seq) == \E i \in 1..Len(seq) : seq[i] \in Inserts

\* the state the routing leaves behind: the page was fetched and extracted
\* and nothing else has happened yet
Routed ==
    /\ pc \notin {"idle", "lookup", "fetch", "extract"}
    /\ extracted /= NoExtracted
    /\ trace = << "lookup", "fetch", "extract" >>

\* the request has run to its return
Returned == pc = "done"

\* C1: whenever the cache lookup returns an entry for the request's
\* (conversation, url), the call returns that entry's summary unchanged, and
\* the lookup is its only collaborator call: no fetch, no notice, no
\* escalation, no model call, no cache write.
C1_CacheHitShortCircuits ==
    existing /= NoRow =>
        /\ pc = "done"
        /\ existing.conversation_id = req.conversation_id
        /\ existing.url = req.url
        /\ \E i \in 1..Len(s3db) : s3db[i] = existing
        /\ result = existing.summary_zh_tw
        /\ trace = << "lookup" >>
        /\ localdb = s3db

\* a run that ended on a hit: the row an earlier run stored for the same
\* conversation and url is found and its summary is the result
C1_Witness ==
    /\ pc = "done" /\ existing /= NoRow
    /\ Len(s3db) > 0
    /\ result = existing.summary_zh_tw
    /\ trace = << "lookup" >>

\* C7 as stated: for an insufficient decision, reliable non-empty text is
\* summarized with no escalation in the run, fallback-body text is escalated
\* if a collaborator is configured and otherwise summarized, and with no text
\* at all the router returns the refusal message.
C7_AsStated ==
    (extracted /= NoExtracted /\ extracted.decision = "insufficient") =>
        /\ (Truthy(extracted.text) /\ has_reliable_source(extracted.sources))
              => (Routed => pc = "summarize") /\ Count(trace, "invoke") = 0
        /\ (Truthy(extracted.text) /\ ~has_reliable_source(extracted.sources))
              => (Routed => pc = IF summarizer_fn THEN "notice_incomplete" ELSE "summarize")
        /\ ~Truthy(extracted.text)
              => (Routed => pc = "done" /\ result = FixedRefusal)

\* C7 (amended): for an insufficient decision, reliable non-empty text is
\* routed to direct summarization, and the escalation collaborator is then
\* invoked only after that summarization raised and only if a collaborator is
\* configured; text whose only tag is fallback:body is escalated if a
\* collaborator is configured and otherwise summarized directly; with no text
\* at all the router escalates if a collaborator is configured and otherwise
\* returns the refusal message.
C7_InsufficientRouting ==
    (extracted /= NoExtracted /\ extracted.decision = "insufficient") =>
        /\ (Truthy(extracted.text) /\ has_reliable_source(extracted.sources))
              => /\ Routed => pc = "summarize"
                 /\ Count(trace, "invoke") > 0 => (exc /= None /\ summarizer_fn)
        /\ (Truthy(extracted.text) /\ ~has_reliable_source(extracted.sources))
              => /\ extracted.sources = << "fallback:body" >>
                 /\ Routed => pc = IF summarizer_fn THEN "notice_incomplete" ELSE "summarize"
        /\ ~Truthy(extracted.text)
              => (Routed => IF summarizer_fn THEN pc = "notice_incomplete"
                            ELSE pc = "done" /\ result = FixedRefusal)

\* an insufficient page with no text at all, routed to the escalation notice
C7_Witness ==
    /\ Routed /\ extracted.decision = "insufficient"
    /\ ~Truthy(extracted.text) /\ summarizer_fn
    /\ pc = "notice_incomplete"

\* C8: for an unprocessable decision the router goes to the escalation
\* collaborator if one is configured (the run then invokes it), and otherwise
\* returns the refusal that ends with the scorer's rationale, with no model
\* call and no cache write in the run.
C8_UnprocessableRouting ==
    (extracted /= NoExtracted /\ extracted.decision = "unprocessable") =>
        IF summarizer_fn
        THEN /\ Routed => pc = "notice_special"
             /\ Returned => Count(trace, "invoke") = 1
        ELSE /\ pc = "done"
             /\ result = "cannot summarize this page. reason: " \o extracted.decision_reason
             /\ extracted.decision_reason /= ""
             /\ trace = << "lookup", "fetch", "extract" >>
             /\ localdb = s3db

\* an unprocessable page refused with its rationale, no collaborator configured
C8_Witness ==
    /\ pc = "done" /\ extracted /= NoExtracted /\ extracted.decision = "unprocessable"
    /\ ~summarizer_fn
    /\ result = ReasonRefusal(extracted.decision_reason)

EscalationFailed ==
    \/ payload.status = "transport"
    \/ (payload.status = "payload" /\ payload.dict /\ payload.errorMessage /= Absent)

\* C9: when the escalation invocation fails in transport or returns an error
\* payload, the run ends with a summary of the static text it already had or
\* with the fixed refusal; the page is not fetched again and the
\* collaborator's error text is not returned.
C9_EscalationFallback ==
    (Returned /\ EscalationFailed) =>
        /\ Count(trace, "fetch") <= 1
        /\ (payload.status = "payload" => result /= ErrorString(payload.errorMessage))
        /\ (result = FixedRefusal \/ result \in ModelSummaries)

\* C10: an escalation response that is not a conforming success payload is a
\* failure: its summary (or the default text standing in for a missing one)
\* is not returned and no row is written for it.
C10_NonConformingIsFailure ==
    (Returned /\ payload.status = "payload" /\ ~Conforming(payload)) =>
        /\ Count(trace, "insert:playwright") = 0
        /\ result \notin {DefaultSummary, payload.summary_zh_tw}

Notices == { "notice_sent", "notice_failed", "notice_skipped" }
Noticed(seq) == \E i \in 1..Len(seq) : seq[i] \in Notices

\* C11: every invocation of the escalation collaborator comes directly after
\* an attempt to send the notice, and every attempt, delivered or not, is
\* followed by the invocation: the run is never aborted by the notice and it
\* ends by returning a string.
C11_NoticeNeverAborts ==
    /\ \A i \in 1..Len(trace) :
          trace[i] = "invoke" => (i > 1 /\ trace[i - 1] \in Notices)
    /\ \A i \in 1..Len(trace) :
          trace[i] \in Notices =>
              IF i = Len(trace) THEN pc = "invoke" ELSE trace[i + 1] = "invoke"
    /\ Noticed(trace) => pc /= "raised"
    /\ (Noticed(trace) /\ Returned) => (Count(trace, "invoke") = 1 /\ result /= None)

\* a run whose notice could not be delivered, escalated all the same and
\* ended with the collaborator's summary
C11_Witness ==
    /\ Returned
    /\ \E i \in 1..(Len(trace) - 1) :
          trace[i] \in {"notice_failed", "notice_skipped"} /\ trace[i + 1] = "invoke"
    /\ result = "p1"

\* C13: whichever collaborator fails (cache lookup, fetch, extraction, model,
\* escalation, notice, cache write), _execute_summarize_url ends by returning
\* a string; no exception leaves it.
C13_NoExceptionEscapes ==
    /\ pc /= "raised"
    /\ Returned => result /= None

\* C14: the url_summaries table on S3 never holds two rows with the same
\* (conversation_id, url).
C14_OneEntryPerKey ==
    \A i, j \in 1..Len(s3db) :
        (s3db[i].conversation_id = s3db[j].conversation_id /\ s3db[i].url = s3db[j].url)
            => i = j

\* positions of the event e in the trace
At(seq, e) == { i \in 1..Len(seq) : seq[i] = e }
Producers == { "model", "invoke" }

\* the steps of a run are in order: the fetch comes first, the extraction
\* next, every summarize or escalate step after them, and an INSERT directly
\* after the step that produced its summary
StepsInOrder ==
    /\ \A i \in 1..Len(trace) :
          trace[i] \in Producers \cup {"extract"} => \E f \in At(trace, "fetch") : f < i
    /\ \A i \in At(trace, "extract") :
          \A j \in 1..Len(trace) : trace[j] \in Producers => i < j
    /\ \A i \in 1..Len(trace) :
          /\ trace[i] \in {"insert:direct", "insert:simple"} => trace[i - 1] = "model"
          /\ trace[i] = "insert:playwright" => trace[i - 1] = "invoke"

\* C16: on a cache miss the run fetches the page exactly once, before any
\* summarize or escalate step, extracts before it summarizes or escalates,
\* and writes the cache directly after the step that produced the summary.
C16_StrictOrder ==
    /\ StepsInOrder
    /\ Count(trace, "fetch") <= 1
    /\ (Returned /\ existing = NoRow) => Count(trace, "fetch") = 1

Sufficient == extracted /= NoExtracted /\ extracted.decision = "sufficient"

\* C21 as stated: after a sufficient decision the run never sends the notice
\* and never invokes the escalation collaborator, whatever the model call and
\* the cache write do.
C21_AsStated ==
    Sufficient => (~Noticed(trace) /\ Count(trace, "invoke") = 0)

\* C21 (amended): after a sufficient decision the run goes to the direct
\* summarization of the extracted text, and its first collaborator call after
\* the extraction is the model call; the notice and the escalation follow
\* only when that summarization (model call or cache write) raised and a
\* collaborator is configured.
C21_SufficientDirect ==
    Sufficient =>
        /\ Routed => pc = "summarize"
        /\ Len(trace) >= 4 => trace[4] = "model"
        /\ (Noticed(trace) \/ Count(trace, "invoke") > 0) => (exc /= None /\ summarizer_fn)
        /\ (Returned /\ exc = None) =>
              (result \in ModelSummaries /\ result = summary /\ saver = "direct")

\* a sufficient page summarized directly and cached, a collaborator being
\* configured and left alone
C21_Witness ==
    /\ Sufficient /\ Returned /\ summarizer_fn
    /\ trace = << "lookup", "fetch", "extract", "model", "insert:direct", "upload" >>
    /\ result \in ModelSummaries

\* ------------------------------------------------------------------------
\* SpecAgent: the tool-use loop of process_message
\* ------------------------------------------------------------------------
MaxCalls == 3        \* model calls in one process_message

Apology == "sorry, I cannot generate a reply"

TextBlock(t) ==
    [type |-> "text", text |-> t, id |-> "", name |-> "",
     input |-> [query |-> Absent, url |-> Absent]]
ToolUse(id, name, query, url) ==
    [type |-> "tool_use", text |-> "", id |-> id, name |-> name,
     input |-> [query |-> query, url |-> url]]

\* what self.client.messages.create can return
Responses ==
    { [stop_reason |-> "end_turn", content |-> << TextBlock("final") >>],
      [stop_reason |-> "end_turn", content |-> << >>],
      [stop_reason |-> "end_turn", content |-> << TextBlock("first"), TextBlock("second") >>],
      [stop_reason |-> "tool_use",
       content |-> << TextBlock("let me look"), ToolUse("tu1", "summarize_url", Absent, "http://a") >>],
      [stop_reason |-> "tool_use",
       content |-> << ToolUse("tu1", "web_search", "q", Absent),
                      ToolUse("tu2", "analyze_file_url", Absent, "http://a/f.pdf") >>],
      [stop_reason |-> "tool_use",
       content |-> << ToolUse("tu1", "calculator", Absent, Absent) >>],
      [stop_reason |-> "tool_use",
       content |-> << ToolUse("tu1", "web_search", Absent, Absent),
                      ToolUse("tu2", "summarize_url", Absent, "http://a") >>],
      [stop_reason |-> "tool_use", content |-> << TextBlock("thinking") >>],
      [stop_reason |-> "max_tokens",
       content |-> << TextBlock("partial"), ToolUse("tu1", "summarize_url", Absent, "http://a") >>] }

\* [block for block in response.content if block.type == ...]
RECURSIVE BlocksOfType(_, _)
BlocksOfType(content, type) ==
    IF content = << >> THEN << >>
    ELSE IF Head(content).type = type
         THEN << Head(content) >> \o BlocksOfType(Tail(content), type)
         ELSE BlocksOfType(Tail(content), type)

tool_use_blocks(r) == BlocksOfType(r.content, "tool_use")
text_blocks(r) == BlocksOfType(r.content, "text")

ContinuesLoopAnyStop(r) == tool_use_blocks(r) /= << >>

ContinuesLoopNoBreak(r) == r.stop_reason = "tool_use"

ContinuesLoopCapped(r) ==
    r.stop_reason = "tool_use" /\ tool_use_blocks(r) /= << >> /\ Len(calls) < 2

\* while response.stop_reason == "tool_use": ... if not tool_use_blocks: break
ContinuesLoop(r) == r.stop_reason = "tool_use" /\ tool_use_blocks(r) /= << >>

\* text_blocks[0].text, or the apology
FinalText(r) == IF text_blocks(r) /= << >> THEN text_blocks(r)[1].text ELSE Apology

Returns(v) == [raised |-> FALSE, value |-> v]
Raises(e) == [raised |-> TRUE, value |-> e]

\* the ways _handle_tool_use(tool_name, tool_input) can end.  The executors
\* catch their own failures and return a string, except that
\* _execute_summarize_url lets a failed cache lookup escape; tool_input[...]
\* raises KeyError when the key is missing
handle_tool_use(tool_name, tool_input) ==
    IF tool_name = "web_search" THEN
        IF tool_input.query = Absent THEN { Raises("KeyError: 'query'") }
        ELSE { Returns("search results"), Returns("search failed: timeout") }
    ELSE IF tool_name = "summarize_url" THEN
        IF tool_input.url = Absent THEN { Raises("KeyError: 'url'") }
        ELSE { Returns("m1"), Returns(FixedRefusal), Raises("database download failed") }
    ELSE IF tool_name = "analyze_file_url" THEN
        IF tool_input.url = Absent THEN { Raises("KeyError: 'url'") }
        ELSE { Returns("<content blocks>"), Returns("unsupported file format") }
    ELSE { Returns("unknown tool: " \o tool_name) }

PrependToolResult(results, tool_use, value) ==
    << [type |-> "tool_result", tool_use_id |-> tool_use.id, content |-> value] >> \o results

\* tool_results.append({"type": "tool_result", "tool_use_id": ..., "content": ...})
AppendToolResult(results, tool_use, value) ==
    Append(results, [type |-> "tool_result", tool_use_id |-> tool_use.id, content |-> value])

UrlOnly == "http://a"
ShortText == "see http://a"
LongText == "<a question of 100 characters or more that mentions http://a>"
StartsWithHttp(t) == t = UrlOnly
ShorterThan100(t) == t \in {UrlOnly, ShortText, "hello"}

UserMessage(t) == [role |-> "user", content |-> t]
AssistantMessage(t) == [role |-> "assistant", content |-> t]

\* (messages, urls) as handler.py passes them
AgentInputs ==
    { [messages |-> << UserMessage(UrlOnly) >>, urls |-> << "http://a" >>],
      [messages |-> << UserMessage(ShortText) >>, urls |-> << "http://a" >>],
      [messages |-> << UserMessage(LongText) >>, urls |-> << "http://a" >>],
      [messages |-> << UserMessage("hello") >>, urls |-> << >>],
      [messages |-> << UserMessage("hello"), AssistantMessage("hi"), UserMessage(UrlOnly) >>,
       urls |-> << "http://a" >>] }

\* the auto-summarize rewrite of a message that is primarily a URL
Rewrite(in) ==
    IF /\ in.urls /= << >> /\ Len(in.messages) = 1
       /\ (StartsWithHttp(in.messages[1].content) \/ ShorterThan100(in.messages[1].content))
    THEN << UserMessage("please use the summarize_url tool on: " \o in.urls[1]) >>
    ELSE in.messages

InitAgent ==
    /\ qual = NoQual /\ PipeIdle /\ ConcIdle
    /\ apc = "idle" /\ messages = << >> /\ response = NoResponse /\ pending = << >>
    /\ tool_results = << >> /\ executed = << >> /\ calls = << >> /\ answer = None

\* process_message is entered
StartProcess ==
    /\ apc = "idle"
    /\ \E in \in AgentInputs : messages' = Rewrite(in)
    /\ apc' = "awaiting_model"
    /\ UNCHANGED << response, pending, tool_results, executed, calls, answer >>

\* response = self.client.messages.create(..., messages=messages), then the
\* loop test: into the loop body, or out of the loop to the return
CallModel ==
    /\ apc = "awaiting_model" /\ Len(calls) < MaxCalls
    /\ calls' = Append(calls, messages)
    /\ \/ /\ apc' = "raised"                       \* the API call raises
          /\ UNCHANGED << response, pending, tool_results, executed, answer >>
       \/ \E r \in Responses :
          /\ response' = r
          /\ IF ContinuesLoop(r)
             THEN /\ apc' = "executing_tools"
                  /\ pending' = tool_use_blocks(r)
                  /\ tool_results' = << >> /\ executed' = << >>
                  /\ UNCHANGED answer
             ELSE /\ apc' = "done"
                  /\ answer' = FinalText(r)
                  /\ UNCHANGED << pending, tool_results, executed >>
    /\ UNCHANGED messages

\* result = await self._handle_tool_use(tool_use.name, tool_use.input)
ExecuteTool ==
    /\ apc = "executing_tools" /\ pending /= << >>
    /\ \E out \in handle_tool_use(Head(pending).name, Head(pending).input) :
          IF out.raised
          THEN /\ apc' = "raised"
               /\ UNCHANGED << pending, tool_results, executed >>
          ELSE /\ tool_results' = AppendToolResult(tool_results, Head(pending), out.value)
               /\ executed' = Append(executed, Head(pending).id)
               /\ pending' = Tail(pending)
               /\ UNCHANGED apc
    /\ UNCHANGED << messages, response, calls, answer >>

\* messages = messages + [assistant turn, user turn with the tool results]
AppendResultsSlidingWindow ==
    /\ apc = "executing_tools" /\ pending = << >>
    /\ messages' = Tail(messages)
                      \o << [role |-> "assistant", content |-> response.content],
                            [role |-> "user", content |-> tool_results] >>
    /\ apc' = "awaiting_model"
    /\ UNCHANGED << response, pending, tool_results, executed, calls, answer >>

AppendResults ==
    /\ apc = "executing_tools" /\ pending = << >>
    /\ messages' = messages \o << [role |-> "assistant", content |-> response.content],
                                  [role |-> "user", content |-> tool_results] >>
    /\ apc' = "awaiting_model"
    /\ UNCHANGED << response, pending, tool_results, executed, calls, answer >>

NextAgent ==
    \/ (StartProcess /\ UNCHANGED << qualVars, pipeVars, concVars, dedupVars >>)
    \/ (CallModel /\ UNCHANGED << qualVars, pipeVars, concVars, dedupVars >>)
    \/ (ExecuteTool /\ UNCHANGED << qualVars, pipeVars, concVars, dedupVars >>)
    \/ (AppendResults /\ UNCHANGED << qualVars, pipeVars, concVars, dedupVars >>)

SpecAgent == InitAgent /\ [][NextAgent]_vars

TypeOKAgent == apc \in {"idle", "awaiting_model", "executing_tools", "done", "raised"}

\* ------------------------------------------------------------------------
\* Properties of the tool-use loop (checked under SpecAgent)
\* ------------------------------------------------------------------------
Ids(blocks) == [i \in 1..Len(blocks) |-> blocks[i].id]
ResultIds(results) == [i \in 1..Len(results) |-> results[i].tool_use_id]

C4_AsStated ==
    apc = "done" => tool_use_blocks(response) = << >>

\* C4 (amended): the loop starts in awaiting-model and returns exactly on a
\* response whose stop reason is not tool_use or that holds no tool-call
\* request.  A response with stop reason tool_use and tool-call requests
\* never ends in a return: its calls are executed in order, and the next
\* model call is made only after every one of them was executed.  A response
\* that holds tool-call requests under another stop reason ends the loop and
\* its calls are not executed.
C4_LoopExit ==
    /\ (apc \in {"executing_tools", "done"}) => Len(calls) >= 1
    /\ apc = "done" =>
          (response.stop_reason /= "tool_use" \/ tool_use_blocks(response) = << >>)
    /\ (response /= NoResponse /\ response.stop_reason /= "tool_use") => apc = "done"
    /\ (response.stop_reason = "tool_use" /\ tool_use_blocks(response) /= << >>) =>
          /\ apc \in {"executing_tools", "awaiting_model", "raised"}
          /\ apc = "awaiting_model" => executed = Ids(tool_use_blocks(response))

\* the loop left on a max_tokens response that still holds a tool-call request
C4_Witness ==
    /\ apc = "done"
    /\ response.stop_reason = "max_tokens"
    /\ tool_use_blocks(response) /= << >>
    /\ answer = "partial"

\* the summaries a model call or the escalation collaborator can produce
Produced == ModelSummaries \cup { "p1", DefaultSummary }

\* the run missed the cache and has returned a produced summary
ReturnedProduced ==
    /\ Returned /\ existing = NoRow /\ Count(trace, "lookup") = 1
    /\ result \in Produced

\* C29: when a call on a cache miss returns a summary produced by the model
\* or by the escalation collaborator, the cache on S3 holds that summary for
\* the key before the call returns: every lookup of the key from then on
\* hits and yields the identical string (so the next call makes no fetch,
\* model or escalation call).
C29_IdempotentAfterSuccess ==
    ReturnedProduced =>
        LET hits == get_summary_by_url(s3db, req.conversation_id, req.url)
        IN  /\ hits /= {}
            /\ \A r \in hits : r.summary_zh_tw = result

NoticeAttempts(seq) == Cardinality({ i \in 1..Len(seq) : seq[i] \in Notices })

\* C28: in one run of summarize_url, whatever fails, the escalation
\* collaborator is invoked at most once and the browser-mode notice is sent
\* at most once (it is not even attempted twice); without a configured
\* escalation function there is no invocation and no notice.
C28_AtMostOneEscalation ==
    /\ Count(trace, "invoke") <= 1
    /\ Count(trace, "notice_sent") <= 1
    /\ NoticeAttempts(trace) <= 1
    /\ ~summarizer_fn => (Count(trace, "invoke") = 0 /\ ~Noticed(trace))

\* a run that escalated after the direct summarization had failed, and whose
\* escalation failed in turn: one notice and one invocation all the same
C28_Witness ==
    /\ Returned /\ summarizer_fn
    /\ exc /= None /\ payload = TransportFailure
    /\ Count(trace, "invoke") = 1 /\ Count(trace, "notice_sent") = 1

IsPrefix(p, q) == Len(p) <= Len(q) /\ SubSeq(q, 1, Len(p)) = p

\* C30: the history of the tool-use loop is append-only: every round appends
\* exactly two entries, the assistant turn holding the model response and
\* then one user turn holding the tool results, and leaves the earlier
\* entries as they were; the history sent to the k-th model call is the
\* initial history followed by k-1 such pairs.
C30_HistoryAppendOnly ==
    /\ \A k \in 1..Len(calls) :
          /\ Len(calls[k]) = Len(calls[1]) + 2 * (k - 1)
          /\ IsPrefix(calls[1], calls[k])
          /\ k > 1 => IsPrefix(calls[k - 1], calls[k])
          /\ \A j \in 1..(k - 1) :
                /\ calls[k][Len(calls[1]) + 2 * j - 1].role = "assistant"
                /\ calls[k][Len(calls[1]) + 2 * j].role = "user"
    /\ calls /= << >> => IsPrefix(calls[Len(calls)], messages)
    /\ (apc = "awaiting_model" /\ calls /= << >>) =>
          /\ Len(messages) = Len(calls[Len(calls)]) + 2
          /\ messages[Len(messages) - 1]
                = [role |-> "assistant", content |-> response.content]
          /\ messages[Len(messages)] = [role |-> "user", content |-> tool_results]

\* the third model call: the initial history followed by two pairs
C30_Witness ==
    /\ Len(calls) = 3
    /\ Len(calls[3]) = Len(calls[1]) + 4
    /\ SubSeq(calls[3], 1, Len(calls[1])) = calls[1]
    /\ calls[3][Len(calls[1]) + 3].role = "assistant"
    /\ calls[3][Len(calls[1]) + 4].role = "user"

\* ------------------------------------------------------------------------
\* SpecAgentLive: the loop under the assumption that the model gives a
\* response that ends the loop by its (MaxCalls + 1)-th call at the latest,
\* and with every enabled step of process_message eventually taken
\* ------------------------------------------------------------------------
CallModelLast ==
    /\ apc = "awaiting_model" /\ Len(calls) = MaxCalls
    /\ calls' = Append(calls, messages)
    /\ \/ /\ apc' = "raised"
          /\ UNCHANGED << response, answer >>
       \/ \E r \in Responses :
          /\ ~ContinuesLoop(r)
          /\ response' = r
          /\ apc' = "done"
          /\ answer' = FinalText(r)
    /\ UNCHANGED << messages, pending, tool_results, executed >>

NextAgentLive ==
    \/ (StartProcess /\ UNCHANGED << qualVars, pipeVars, concVars, dedupVars >>)
    \/ (CallModel /\ UNCHANGED << qualVars, pipeVars, concVars, dedupVars >>)
    \/ (CallModelLast /\ UNCHANGED << qualVars, pipeVars, concVars, dedupVars >>)
    \/ (ExecuteTool /\ UNCHANGED << qualVars, pipeVars, concVars, dedupVars >>)
    \/ (AppendResults /\ UNCHANGED << qualVars, pipeVars, concVars, dedupVars >>)

SpecAgentLive == InitAgent /\ [][NextAgentLive]_vars /\ WF_vars(NextAgentLive)

ToolManifest == { "web_search", "summarize_url", "analyze_file_url" }
RequiredParam(tool_name) == IF tool_name = "web_search" THEN "query" ELSE "url"

\* a requested call that does not match the manifest
Malformed(tool_use) ==
    \/ tool_use.name \notin ToolManifest
    \/ tool_use.input[RequiredParam(tool_use.name)] = Absent

\* C12: a requested call whose tool name is outside the manifest or whose
\* required parameter is missing never makes the dispatcher raise; its tool
\* result is the "unknown tool" string and the round goes on.
C12_MalformedCallAnswered ==
    /\ (apc = "raised" /\ pending /= << >>) => ~Malformed(Head(pending))
    /\ apc = "executing_tools" =>
          \A i \in 1..Len(tool_results) :
              Malformed(tool_use_blocks(response)[i]) =>
                  tool_results[i].content =
                      "unknown tool: " \o tool_use_blocks(response)[i].name

\* ------------------------------------------------------------------------
\* SpecConc: two workers, each in its own execution environment with its own
\* /tmp copy of the database, serve summarize_url for the same
\* (conversation_id, url).  The steps between the cache lookup and the cache
\* write touch no shared state and are folded into ConcRoute and ConcProduce.
\* ------------------------------------------------------------------------
ConcKey == << 1, "a" >>

SetWorker(w, r) == workers' = [workers EXCEPT ![w] = r]

\* the strategy that takes over when `saver` has failed, or None
NextStrategy(saver_) ==
    CASE saver_ = "direct" -> IF summarizer_fn THEN "playwright" ELSE None
      [] saver_ = "playwright" -> "simple"
      [] OTHER -> None

\* the worker after its strategy failed with str(e) = e
Fallback(wr, e) ==
    IF NextStrategy(wr.saver) /= None
    THEN [wr EXCEPT !.pc = "produce", !.saver = NextStrategy(wr.saver)]
    ELSE [wr EXCEPT !.pc = "done", !.result = ErrorString(e)]

ConcRequest(w) ==
    /\ workers[w].pc = "idle"
    /\ SetWorker(w, [workers[w] EXCEPT !.pc = "lookup"])
    /\ UNCHANGED << uploads, pipeVars >>

\* get_summary_by_url on a fresh download of the S3 object
ConcLookup(w) ==
    /\ workers[w].pc = "lookup"
    /\ \/ SetWorker(w, [workers[w] EXCEPT !.pc = "raised"])
       \/ LET hits == get_summary_by_url(s3db, ConcKey[1], ConcKey[2])
          IN  IF hits = {}
              THEN SetWorker(w, [workers[w] EXCEPT
                                   !.pc = "route", !.local = s3db, !.missed = TRUE])
              ELSE \E r \in hits :
                     SetWorker(w, [workers[w] EXCEPT
                                     !.pc = "done", !.local = s3db,
                                     !.result = r.summary_zh_tw])
    /\ UNCHANGED << uploads, pipeVars >>

\* fetch, extraction and routing: on to direct summarization, on to the
\* escalation, or (no collaborator configured) out with a refusal
ConcRoute(w) ==
    /\ workers[w].pc = "route"
    /\ \/ SetWorker(w, [workers[w] EXCEPT !.pc = "produce", !.saver = "direct"])
       \/ /\ summarizer_fn
          /\ SetWorker(w, [workers[w] EXCEPT !.pc = "produce", !.saver = "playwright"])
       \/ /\ ~summarizer_fn
          /\ SetWorker(w, [workers[w] EXCEPT !.pc = "done", !.result = FixedRefusal])
    /\ UNCHANGED << uploads, pipeVars >>

\* the strategy in turn produces a summary, or fails
ConcProduce(w) ==
    /\ workers[w].pc = "produce"
    /\ LET wr == workers[w]
       IN  \/ \E m \in (IF wr.saver = "playwright" THEN {"p1"} ELSE ModelSummaries) :
                SetWorker(w, [wr EXCEPT !.pc = "save", !.summary = m])
           \/ SetWorker(w, Fallback(wr, "model error"))
           \/ /\ wr.saver = "playwright"
              /\ SetWorker(w, [wr EXCEPT !.pc = "done",
                                          !.result = ErrorString("Task timed out")])
    /\ UNCHANGED << uploads, pipeVars >>

\* save_summary: INSERT into the worker's copy, commit, upload the copy
ConcSave(w) ==
    /\ workers[w].pc = "save"
    /\ LET wr == workers[w]
       IN  \E now \in Timestamps(wr.local, ConcKey[1], ConcKey[2]) :
             LET copy == Append(wr.local,
                            [conversation_id |-> ConcKey[1], url |-> ConcKey[2],
                             summary_zh_tw |-> wr.summary, created_at |-> now])
             IN  \/ /\ s3db' = copy
                    /\ uploads' = Append(uploads, [worker |-> w, summary |-> wr.summary])
                    /\ SetWorker(w, [wr EXCEPT !.pc = "done", !.local = copy,
                                                !.result = wr.summary])
                 \/ /\ SetWorker(w, [Fallback(wr, "upload failed") EXCEPT !.local = copy])
                    /\ UNCHANGED << s3db, uploads >>
    /\ UNCHANGED << summarizer_fn, localdb, req, pc, existing, extracted, summary,
                    saver, exc, payload, result, trace >>

NextConc ==
    \/ \E w \in WorkerIds : ConcRequest(w) /\ UNCHANGED << qualVars, agentVars, dedupVars >>
    \/ \E w \in WorkerIds : ConcLookup(w) /\ UNCHANGED << qualVars, agentVars, dedupVars >>
    \/ \E w \in WorkerIds : ConcRoute(w) /\ UNCHANGED << qualVars, agentVars, dedupVars >>
    \/ \E w \in WorkerIds : ConcProduce(w) /\ UNCHANGED << qualVars, agentVars, dedupVars >>
    \/ \E w \in WorkerIds : ConcSave(w) /\ UNCHANGED << qualVars, agentVars, dedupVars >>

SpecConc == Init /\ [][NextConc]_vars

\* both requests missed the cache, both wrote, and both have returned
BothWrote ==
    /\ \A w \in WorkerIds : workers[w].pc = "done" /\ workers[w].missed
    /\ Len(uploads) = 2

\* C15: when two concurrent requests for one key both missed the cache and
\* both completed their write, the table on S3 is the copy of the second
\* writer, and every lookup of the key returns the summary of that second
\* write.
C15_LastWriteWins ==
    BothWrote =>
        /\ s3db = workers[uploads[2].worker].local
        /\ \A r \in get_summary_by_url(s3db, ConcKey[1], ConcKey[2]) :
              r.summary_zh_tw = uploads[2].summary

\* ------------------------------------------------------------------------
\* SpecDedup: lambda_handler on several Lambda instances.  Every instance
\* has its own /tmp copy of the database; the S3 object is shared and is
\* replaced as a whole by every upload.
\* ------------------------------------------------------------------------
SetHandler(w, r) == handlers' = [handlers EXCEPT ![w] = r]

\* Telegram delivers (or delivers again) the update to an instance
Deliver(w, u) ==
    /\ handlers[w].pc = "idle" /\ handlers[w].served < MaxDeliveries
    /\ SetHandler(w, [handlers[w] EXCEPT !.pc = "check", !.update = u,
                                          !.served = @ + 1])
    /\ UNCHANGED << processed_updates, runs >>

\* processed_repo.is_processed(update_id): a readonly connection, which
\* downloads the S3 object afresh, then the SELECT on the copy
IsProcessed(w) ==
    /\ handlers[w].pc = "check"
    /\ \/ SetHandler(w, [handlers[w] EXCEPT !.pc = "idle"])      \* download raises
       \/ SetHandler(w, [handlers[w] EXCEPT
                !.local = processed_updates,
                !.pc = IF handlers[w].update \in processed_updates
                       THEN "idle" ELSE "mark"])
    /\ UNCHANGED << processed_updates, runs >>

\* processed_repo.mark_processed(update_id): INSERT OR IGNORE into the copy
\* already downloaded, commit, upload of the copy
MarkProcessed(w) ==
    /\ handlers[w].pc = "mark"
    /\ LET copy == handlers[w].local \cup { handlers[w].update }
       IN  \/ /\ processed_updates' = copy
              /\ SetHandler(w, [handlers[w] EXCEPT !.pc = "process", !.local = copy])
           \/ /\ SetHandler(w, [handlers[w] EXCEPT !.pc = "idle", !.local = copy])
              /\ UNCHANGED processed_updates                     \* upload raises
    /\ UNCHANGED runs

\* log_repo.add_log(...) uploads the copy (a failure is swallowed), then
\* process_message(update, config, db) is run
ProcessUpdate(w) ==
    /\ handlers[w].pc = "process"
    /\ \/ processed_updates' = handlers[w].local
       \/ UNCHANGED processed_updates
    /\ runs' = [runs EXCEPT ![handlers[w].update] = @ + 1]
    /\ SetHandler(w, [handlers[w] EXCEPT !.pc = "idle"])

NextDedup ==
    \/ \E w \in WorkerIds, u \in UpdateIds :
          Deliver(w, u) /\ UNCHANGED << qualVars, pipeVars, agentVars, concVars >>
    \/ \E w \in WorkerIds :
          IsProcessed(w) /\ UNCHANGED << qualVars, pipeVars, agentVars, concVars >>
    \/ \E w \in WorkerIds :
          MarkProcessed(w) /\ UNCHANGED << qualVars, pipeVars, agentVars, concVars >>
    \/ \E w \in WorkerIds :
          ProcessUpdate(w) /\ UNCHANGED << qualVars, pipeVars, agentVars, concVars >>

SpecDedup == Init /\ [][NextDedup]_vars

\* C27: for every update_id, under any interleaving of repeated or
\* concurrent deliveries across the instances sharing the S3 database,
\* process_message is run for it at most once.
C27_ProcessedAtMostOnce == \A u \in UpdateIds : runs[u] <= 1

====
